---- MODULE Spec2Model ----
(***************************************************************************)
(* State-machine model of topaz_video_gui_pro.py: the AdobeStockUpscaler   *)
(* worker (_process_videos), its credential pool and backing key file, the *)
(* pending-video queue and the presentation-layer handlers that share them.*)
(***************************************************************************)
EXTENDS Integers, Sequences, FiniteSets, TLC

(* ------------------------------ bounds -------------------------------- *)

\* Number of distinct video files the user can pick.
NumVideos == 2

Videos == 1..NumVideos

(* --------------------------- text of key files ------------------------ *)

\* A line of a key file is a sequence of characters (its newline left out).
HASH == "#"
SPACE == " "

\* The key file on disk when the program starts, by path: a comment that
\* quotes a key, that key, a key that extends it, and the first key again with
\* a trailing blank.
Paths == {"A"}
NoPath == "none"

InitialDisk ==
    [p \in Paths |-> << <<HASH, "1">>, <<"1">>, <<"1", "2">>, <<"1", SPACE>> >>]

RECURSIVE LStrip(_)
LStrip(s) == IF s # <<>> /\ Head(s) = SPACE THEN LStrip(Tail(s)) ELSE s

RECURSIVE RStrip(_)
RStrip(s) ==
    IF s # <<>> /\ s[Len(s)] = SPACE THEN RStrip(SubSeq(s, 1, Len(s) - 1)) ELSE s

\* str.strip()
Strip(s) == RStrip(LStrip(s))

\* `sub in line` for Python strings
Contains(line, sub) ==
    \E i \in 1..(Len(line) + 1) :
        /\ i + Len(sub) - 1 <= Len(line)
        /\ SubSeq(line, i, i + Len(sub) - 1) = sub

\* `x in list`
InList(x, l) == \E i \in 1..Len(l) : l[i] = x

\* list.remove(x): drops the first element equal to x
RemoveFirst(l, x) ==
    LET i == CHOOSE j \in 1..Len(l) : l[j] = x /\ \A m \in 1..(j - 1) : l[m] # x
    IN  SubSeq(l, 1, i - 1) \o SubSeq(l, i + 1, Len(l))

\* list.pop(i) for a 1-based position i
RemoveAt(l, i) == SubSeq(l, 1, i - 1) \o SubSeq(l, i + 1, Len(l))

RECURSIVE SelectLines(_, _)
SelectLines(lines, key) ==
    IF lines = <<>> THEN <<>>
    ELSE IF Contains(Head(lines), key)
         THEN SelectLines(Tail(lines), key)
         ELSE <<Head(lines)>> \o SelectLines(Tail(lines), key)

\* read_api_keys_from_file: stripped, non-empty, non-comment lines in order
RECURSIVE read_api_keys_from_file(_)
read_api_keys_from_file(lines) ==
    IF lines = <<>> THEN <<>>
    ELSE LET line == Strip(Head(lines))
         IN  IF line # <<>> /\ Head(line) # HASH
             THEN <<line>> \o read_api_keys_from_file(Tail(lines))
             ELSE read_api_keys_from_file(Tail(lines))

(* ------------------------------ state ---------------------------------- *)

VARIABLES
    \* presentation layer and shared data
    disk,             \* content of each key file, by path
    api_file_path,    \* self.api_file_path
    output_dir_ok,    \* os.path.isdir(self.output_dir.get())
    api_keys,         \* self.api_keys, the credential pool
    input_files,      \* self.input_files, the pending-video queue
    is_processing,    \* self.is_processing
    stop_event,       \* self.stop_event.is_set()
    pause_event,      \* self.pause_event.is_set()
    start_btn,        \* self.start_btn.enabled
    pause_btn,        \* self.pause_btn.enabled
    stop_btn,         \* self.stop_btn.enabled
    \* the worker thread
    pc,               \* position of the worker in _process_videos
    videos_to_process,
    idx,
    key_candidates,
    api_key,
    success,
    status,           \* the status response being examined
    err,              \* the exception being handled
    temp_exists,      \* the temporary download artifact exists
    delete_original,  \* the delete-original option as read for the current video
    original_exists,  \* the source file of the current video exists
    \* history of the current video (what the log records)
    pool_at_start,    \* the pool as copied when the current video started
    tried,            \* keys popped for the current video, in order
    video_log,        \* what _log recorded since the current video started
    poll_stopped,     \* the poll loop of the current video ended on the stop signal
    \* worker threads beyond the first, and calls of the module-level functions
    workers,          \* thread -> its position in _process_videos
    call              \* the function call being evaluated: arguments and result

uiVars == <<disk, api_file_path, output_dir_ok, api_keys, input_files,
            is_processing, stop_event, pause_event, start_btn, pause_btn, stop_btn>>
wkVars == <<pc, videos_to_process, idx, key_candidates, api_key, success,
            status, err, temp_exists, delete_original, original_exists>>
histVars == <<pool_at_start, tried, video_log, poll_stopped>>
auxVars == <<workers, call>>
vars == <<uiVars, wkVars, histVars, auxVars>>

NoKey == <<>>
NoStatus == [state |-> "none", progress |-> 0, download |-> FALSE]
NoCall == [op |-> "none"]
NoErr == [http |-> FALSE, status_code |-> 0, json |-> FALSE, credit |-> FALSE]

\* The state after construction, with a settings file that names the key file
\* and the output folder (_load_settings, which ends in _update_controls).
InitMain ==
    /\ disk = InitialDisk
    /\ api_file_path = "A"
    /\ output_dir_ok = TRUE
    /\ api_keys = read_api_keys_from_file(InitialDisk["A"])
    /\ input_files = <<>>
    /\ is_processing = FALSE
    /\ stop_event = FALSE
    /\ pause_event = TRUE
    /\ start_btn = FALSE
    /\ pause_btn = FALSE
    /\ stop_btn = FALSE
    /\ pc = "idle"
    /\ videos_to_process = <<>>
    /\ idx = 0
    /\ key_candidates = <<>>
    /\ api_key = NoKey
    /\ success = FALSE
    /\ status = NoStatus
    /\ err = NoErr
    /\ temp_exists = FALSE
    /\ delete_original = FALSE
    /\ original_exists = TRUE
    /\ pool_at_start = <<>>
    /\ tried = <<>>
    /\ video_log = <<>>
    /\ poll_stopped = FALSE

\* the state after construction; no further thread, no call under evaluation
Init ==
    /\ InitMain
    /\ workers = <<>>
    /\ call = NoCall

(* ------------------------ presentation layer --------------------------- *)

\* _update_controls: the value it gives start_btn.enabled
can_start(files, keys, dir_ok, processing) ==
    /\ Len(files) > 0
    /\ Len(keys) > 0
    /\ dir_ok
    /\ ~processing

\* _choose_api_file: a file was picked in the dialog
ChooseApiFile(p) ==
    /\ api_file_path' = p
    /\ api_keys' = read_api_keys_from_file(disk[p])
    /\ start_btn' = can_start(input_files, api_keys', output_dir_ok, is_processing)
    /\ UNCHANGED <<disk, output_dir_ok, input_files, is_processing, stop_event,
                   pause_event, pause_btn, stop_btn>>
    /\ UNCHANGED <<wkVars, histVars>>
    /\ UNCHANGED auxVars

\* the loop of _choose_videos over the picked files that pass
\* _validate_video_for_adobe (a rejected file changes nothing)
RECURSIVE AddFiles(_, _)
AddFiles(queue, files) ==
    IF files = <<>> THEN queue
    ELSE LET file == Head(files)
         IN  IF ~InList(file, queue)
             THEN AddFiles(Append(queue, file), Tail(files))
             ELSE AddFiles(queue, Tail(files))

\* the selections the file dialog can return: non-empty, no file twice
Picks == {f \in UNION {[1..n -> Videos] : n \in 1..NumVideos} :
             \A i, j \in DOMAIN f : i # j => f[i] # f[j]}

\* _choose_videos
ChooseVideos(files) ==
    /\ input_files' = AddFiles(input_files, files)
    /\ start_btn' = can_start(input_files', api_keys, output_dir_ok, is_processing)
    /\ UNCHANGED <<disk, api_file_path, output_dir_ok, api_keys, is_processing,
                   stop_event, pause_event, pause_btn, stop_btn>>
    /\ UNCHANGED <<wkVars, histVars>>
    /\ UNCHANGED auxVars

\* the pops of _remove_selected, from the highest selected index down
RECURSIVE PopSelected(_, _)
PopSelected(queue, sel) ==
    IF sel = {} THEN queue
    ELSE LET i == CHOOSE m \in sel : \A n \in sel : n <= m
         IN  PopSelected(IF i <= Len(queue) THEN RemoveAt(queue, i) ELSE queue,
                         sel \ {i})

\* _remove_selected with a non-empty listbox selection
RemoveSelected(sel) ==
    /\ sel # {}
    /\ sel \subseteq 1..Len(input_files)
    /\ input_files' = PopSelected(input_files, sel)
    /\ start_btn' = can_start(input_files', api_keys, output_dir_ok, is_processing)
    /\ UNCHANGED <<disk, api_file_path, output_dir_ok, api_keys, is_processing,
                   stop_event, pause_event, pause_btn, stop_btn>>
    /\ UNCHANGED <<wkVars, histVars>>
    /\ UNCHANGED auxVars

\* _clear_queue
ClearQueue ==
    /\ input_files' = <<>>
    /\ start_btn' = can_start(<<>>, api_keys, output_dir_ok, is_processing)
    /\ UNCHANGED <<disk, api_file_path, output_dir_ok, api_keys, is_processing,
                   stop_event, pause_event, pause_btn, stop_btn>>
    /\ UNCHANGED <<wkVars, histVars>>
    /\ UNCHANGED auxVars

\* _start_processing, reached through the enabled start button
StartProcessing ==
    /\ start_btn
    /\ is_processing' = TRUE
    /\ stop_event' = FALSE
    /\ pause_event' = TRUE
    /\ start_btn' = FALSE
    /\ pause_btn' = TRUE
    /\ stop_btn' = TRUE
    /\ pc' = "start"
    /\ UNCHANGED <<disk, api_file_path, output_dir_ok, api_keys, input_files>>
    /\ UNCHANGED <<videos_to_process, idx, key_candidates, api_key, success,
                   status, err, temp_exists, delete_original, original_exists>>
    /\ UNCHANGED histVars
    /\ UNCHANGED auxVars

\* _toggle_pause, reached through the enabled pause button
TogglePause ==
    /\ pause_btn
    /\ pause_event' = ~pause_event
    /\ UNCHANGED <<disk, api_file_path, output_dir_ok, api_keys, input_files,
                   is_processing, stop_event, start_btn, pause_btn, stop_btn>>
    /\ UNCHANGED <<wkVars, histVars>>
    /\ UNCHANGED auxVars

\* _stop_processing, confirmed in the dialog
StopProcessing ==
    /\ stop_btn
    /\ stop_event' = TRUE
    /\ pause_event' = TRUE
    /\ UNCHANGED <<disk, api_file_path, output_dir_ok, api_keys, input_files,
                   is_processing, start_btn, pause_btn, stop_btn>>
    /\ UNCHANGED <<wkVars, histVars>>
    /\ UNCHANGED auxVars

(* ------------------------- remote service ------------------------------ *)

HTTP_PAYMENT_REQUIRED == 402

\* What a failing call raises: a requests HTTPError with its status code, whether
\* its body decodes as JSON and whether the body's text holds 'Insufficient
\* credits'; or any other exception.
Errors ==
    { [http |-> TRUE,  status_code |-> 402, json |-> TRUE,  credit |-> TRUE],
      [http |-> TRUE,  status_code |-> 402, json |-> TRUE,  credit |-> FALSE],
      [http |-> TRUE,  status_code |-> 402, json |-> FALSE, credit |-> TRUE],
      [http |-> TRUE,  status_code |-> 500, json |-> TRUE,  credit |-> TRUE],
      [http |-> FALSE, status_code |-> 0,   json |-> FALSE, credit |-> FALSE] }

\* the KeyError of status['download']['url'] on a response without one
KeyError == [http |-> FALSE, status_code |-> 0, json |-> FALSE, credit |-> FALSE]

\* The status responses of the service: the state string as sent, the progress
\* in hundredths (42: 0.42, 100: 1.0), and whether a download descriptor is
\* present.
StateStrings == {"processing", "Complete", "FAILED", "cancelled"}
ProgressValues == {42, 100}
StatusResponses ==
    [state : StateStrings, progress : ProgressValues, download : BOOLEAN]

\* str.lower() on the state strings
Lower(s) ==
    CASE s = "Complete" -> "complete"
      [] s = "FAILED" -> "failed"
      [] OTHER -> s

\* state_lower of a response (lines 1540-1541)
state_lower(r) == Lower(r.state)

Min(a, b) == IF a < b THEN a ELSE b
Max(a, b) == IF a > b THEN a ELSE b

\* the progress of a response scaled but not clamped
progress_val_NoClamp(r) == IF r.progress > 100 THEN r.progress ELSE r.progress * 100

\* progress_val of a response, in hundredths of a percent (lines 1543-1548)
progress_val(r) ==
    LET raw == r.progress
        val == IF raw > 100 THEN raw ELSE raw * 100
    IN  Max(0, Min(val, 10000))

\* the branch on a response without the wait for the final status
Verdict_NoFinalWait(r) ==
    IF state_lower(r) = "complete" \/ r.download
    THEN (IF r.download THEN "download" ELSE "key_error")
    ELSE IF state_lower(r) \in {"failed", "cancelled"} THEN "server_failed"
    ELSE "wait"

\* the branch taken on a status response (lines 1552-1631)
Verdict(r) ==
    IF progress_val(r) >= 10000 /\ state_lower(r) # "complete" THEN "wait_final"
    ELSE IF state_lower(r) = "complete" \/ r.download
         THEN (IF r.download THEN "download" ELSE "key_error")
    ELSE IF state_lower(r) \in {"failed", "cancelled"} THEN "server_failed"
    ELSE "wait"

(* ----------------------------- the worker ------------------------------ *)

\* eviction on any decodable 402, whatever its message
IsInsufficientCredit_Any402(e) == e.http /\ e.json /\ e.status_code = 402

\* _handle_api_error: does this exception evict the key?
IsInsufficientCredit(e) ==
    /\ e.http
    /\ e.json
    /\ e.status_code = HTTP_PAYMENT_REQUIRED
    /\ e.credit

\* `if key in self.api_keys: self.api_keys.remove(key)`
EvictFromPool(pool, key) == IF InList(key, pool) THEN RemoveFirst(pool, key) ELSE pool

\* _remove_key_from_file on the file's lines
remove_key_from_file(lines, key) == SelectLines(lines, key)

\* the rotation of the key that succeeded (lines 1607-1611)
Rotate(pool, key) ==
    IF InList(key, pool) THEN Append(RemoveFirst(pool, key), key) ELSE pool

\* the removal of the entry at the head of the queue, whatever it is
RemoveVideo_Head(queue, v) == IF queue # <<>> THEN Tail(queue) ELSE queue

\* the removal of the finished video from the queue (lines 1616-1619)
RemoveVideo(queue, v) ==
    IF InList(v, queue)
    THEN RemoveAt(queue, CHOOSE i \in 1..Len(queue) :
                            queue[i] = v /\ \A m \in 1..(i - 1) : queue[m] # v)
    ELSE queue

video_path == IF idx \in 1..Len(videos_to_process) THEN videos_to_process[idx] ELSE 0

\* a wait that returns although the pause signal is clear
pause_event_wait_NoBlock == TRUE

\* self.pause_event.wait() (lines 1443 and 1537) returns only while the event
\* is set
pause_event_wait == pause_event

\* a call of the attempt raises: control goes to the except clause
Raise(e) ==
    /\ err' = e
    /\ pc' = "except"

\* line 1436: the thread starts and copies the queue
WorkerBegin ==
    /\ pc = "start"
    /\ videos_to_process' = input_files
    /\ idx' = 0
    /\ pc' = "for"
    /\ UNCHANGED <<key_candidates, api_key, success, status, err, temp_exists, delete_original, original_exists>>
    /\ UNCHANGED <<uiVars, histVars>>
    /\ UNCHANGED auxVars

\* lines 1441-1442: next video, or the end of the list, or stop observed
ForNextVideo ==
    /\ pc = "for"
    /\ IF idx >= Len(videos_to_process)
       THEN /\ pc' = "finally"
            /\ UNCHANGED idx
       ELSE /\ idx' = idx + 1
            /\ pc' = IF stop_event THEN "finally" ELSE "pause_wait"
    /\ key_candidates' = <<>>
    /\ api_key' = NoKey
    /\ success' = FALSE
    /\ pool_at_start' = <<>>
    /\ tried' = <<>>
    /\ video_log' = <<>>
    /\ poll_stopped' = FALSE
    /\ delete_original' = FALSE
    /\ original_exists' = TRUE
    /\ UNCHANGED <<videos_to_process, status, err, temp_exists>>
    /\ UNCHANGED uiVars
    /\ UNCHANGED auxVars

\* lines 1443-1508: self.pause_event.wait(), then probe the video (a failure
\* skips it), read the settings, among them the delete-original switch in
\* whatever position the user left it (1495), copy the pool; an exception of
\* lines 1445-1506, which no inner try encloses, reaches the except at 1644
ProbeVideo ==
    /\ pc = "pause_wait"
    /\ pause_event_wait
    /\ \/ /\ pc' = "for"
          /\ video_log' = Append(video_log, <<"Gagal membaca metadata", video_path>>)
          /\ UNCHANGED <<key_candidates, success, pool_at_start, tried, delete_original>>
       \/ /\ key_candidates' = api_keys
          /\ success' = FALSE
          /\ pool_at_start' = api_keys
          /\ tried' = <<>>
          /\ delete_original' \in BOOLEAN
          /\ UNCHANGED video_log
          /\ pc' = "while_keys"
       \/ /\ pc' = "finally"
          /\ video_log' = Append(video_log, <<"ERROR KRITIS PADA THREAD", video_path>>)
          /\ UNCHANGED <<key_candidates, success, pool_at_start, tried, delete_original>>
    /\ UNCHANGED poll_stopped
    /\ UNCHANGED <<videos_to_process, idx, api_key, status, err, temp_exists, original_exists>>
    /\ UNCHANGED uiVars
    /\ UNCHANGED auxVars

\* the pop of the wrong end of the candidate list
NextCandidate_Last(candidates) == candidates[Len(candidates)]

\* line 1511: the key that key_candidates.pop(0) returns
NextCandidate(candidates) == Head(candidates)

\* lines 1509-1511: the head of the credential loop
WhileKeys ==
    /\ pc = "while_keys"
    /\ IF key_candidates = <<>> \/ success \/ stop_event
       THEN /\ pc' = "after_keys"
            /\ UNCHANGED <<key_candidates, api_key, tried>>
       ELSE /\ api_key' = NextCandidate(key_candidates)
            /\ key_candidates' = Tail(key_candidates)
            /\ tried' = Append(tried, api_key')
            /\ pc' = "create"
    /\ UNCHANGED <<videos_to_process, idx, success, status, err, temp_exists, delete_original, original_exists>>
    /\ UNCHANGED <<uiVars, pool_at_start, video_log, poll_stopped>>
    /\ UNCHANGED auxVars

\* lines 1514-1519: create_request
CreateRequest ==
    /\ pc = "create"
    /\ \/ /\ pc' = "accept"
          /\ UNCHANGED err
       \/ \E e \in Errors : Raise(e)
    /\ UNCHANGED <<videos_to_process, idx, key_candidates, api_key, success,
                   status, temp_exists, delete_original, original_exists>>
    /\ UNCHANGED <<uiVars, histVars>>
    /\ UNCHANGED auxVars

\* lines 1522-1527: accept_request; an empty URL list ends the attempt
AcceptRequest ==
    /\ pc = "accept"
    /\ \/ /\ pc' = "upload"
          /\ UNCHANGED err
       \/ /\ pc' = "while_keys"
          /\ UNCHANGED err
       \/ \E e \in Errors : Raise(e)
    /\ UNCHANGED <<videos_to_process, idx, key_candidates, api_key, success,
                   status, temp_exists, delete_original, original_exists>>
    /\ UNCHANGED <<uiVars, histVars>>
    /\ UNCHANGED auxVars

\* line 1530: upload_video_parts
UploadParts ==
    /\ pc = "upload"
    /\ \/ /\ pc' = "complete_upload"
          /\ UNCHANGED err
       \/ \E e \in Errors : Raise(e)
    /\ UNCHANGED <<videos_to_process, idx, key_candidates, api_key, success,
                   status, temp_exists, delete_original, original_exists>>
    /\ UNCHANGED <<uiVars, histVars>>
    /\ UNCHANGED auxVars

\* line 1531: complete_upload
CompleteUpload ==
    /\ pc = "complete_upload"
    /\ \/ /\ pc' = "poll"
          /\ UNCHANGED err
       \/ \E e \in Errors : Raise(e)
    /\ UNCHANGED <<videos_to_process, idx, key_candidates, api_key, success,
                   status, temp_exists, delete_original, original_exists>>
    /\ UNCHANGED <<uiVars, histVars>>
    /\ UNCHANGED auxVars

\* line 1536: the head of the poll loop
PollHead ==
    /\ pc = "poll"
    /\ pc' = IF stop_event THEN "while_keys" ELSE "poll_pause"
    /\ poll_stopped' = stop_event
    /\ UNCHANGED <<videos_to_process, idx, key_candidates, api_key, success,
                   status, err, temp_exists, delete_original, original_exists>>
    /\ UNCHANGED <<uiVars, pool_at_start, tried, video_log>>
    /\ UNCHANGED auxVars

\* lines 1537-1539: self.pause_event.wait(), then get_status
GetStatus ==
    /\ pc = "poll_pause"
    /\ pause_event_wait
    /\ \/ \E r \in StatusResponses :
             /\ status' = r
             /\ pc' = "examine"
             /\ UNCHANGED err
       \/ /\ \E e \in Errors : Raise(e)
          /\ UNCHANGED status
    /\ UNCHANGED <<videos_to_process, idx, key_candidates, api_key, success,
                   temp_exists, delete_original, original_exists>>
    /\ UNCHANGED <<uiVars, histVars>>
    /\ UNCHANGED auxVars

\* lines 1540-1559 and 1629-1631: the branch on the response
ExamineStatus ==
    /\ pc = "examine"
    /\ status' = NoStatus
    /\ LET v == Verdict(status)
       IN  \/ /\ v \in {"wait_final", "wait"}
              /\ pc' = "sleep"
              /\ UNCHANGED err
           \/ /\ v = "download"
              /\ pc' = "download"
              /\ UNCHANGED err
           \/ /\ v = "key_error"
              /\ Raise(KeyError)
           \/ /\ v = "server_failed"
              /\ pc' = "while_keys"
              /\ UNCHANGED err
    /\ UNCHANGED <<videos_to_process, idx, key_candidates, api_key, success,
                   temp_exists, delete_original, original_exists>>
    /\ UNCHANGED <<uiVars, histVars>>
    /\ UNCHANGED auxVars

\* lines 1554 and 1631: time.sleep(10)
Sleep ==
    /\ pc = "sleep"
    /\ pc' = "poll"
    /\ UNCHANGED <<videos_to_process, idx, key_candidates, api_key, success,
                   status, err, temp_exists, delete_original, original_exists>>
    /\ UNCHANGED <<uiVars, histVars>>
    /\ UNCHANGED auxVars

\* lines 1561-1563: download_video into the temp file; a failure after the
\* file was opened leaves it behind
DownloadResult ==
    /\ pc = "download"
    /\ \/ /\ temp_exists' = TRUE
          /\ pc' = "reencode"
          /\ UNCHANGED err
       \/ /\ \E e \in Errors : Raise(e)
          /\ temp_exists' \in {temp_exists, TRUE}
    /\ UNCHANGED <<videos_to_process, idx, key_candidates, api_key, success, status>>
    /\ UNCHANGED <<delete_original, original_exists>>
    /\ UNCHANGED <<uiVars, histVars>>
    /\ UNCHANGED auxVars

\* lines 1573-1594: reencode_video_adobe_optimized and the finally clause that
\* removes the temp file; False ends the poll loop, an exception goes to except
Reencode ==
    /\ pc = "reencode"
    /\ temp_exists' = FALSE
    /\ \/ /\ pc' = "finish"
          /\ UNCHANGED <<err, video_log>>
       \/ /\ pc' = "while_keys"
          /\ video_log' = Append(video_log, <<"Re-encode gagal.", video_path>>)
          /\ UNCHANGED err
       \/ /\ \E e \in Errors : Raise(e)
          /\ UNCHANGED video_log
    /\ UNCHANGED <<videos_to_process, idx, key_candidates, api_key, success, status>>
    /\ UNCHANGED <<delete_original, original_exists>>
    /\ UNCHANGED <<uiVars, pool_at_start, tried, poll_stopped>>
    /\ UNCHANGED auxVars

\* the removal of the original whatever the option says
RemoveOriginal_Always(option, exists) == {FALSE, exists}

\* lines 1598-1605: whether the original exists afterwards; os.remove is
\* called only with the option on, and may fail
RemoveOriginal(option, exists) == IF option THEN {FALSE, exists} ELSE {exists}

\* lines 1596-1628: log SUKSES, delete the original when the option was on
\* (os.remove may fail), rotate the key, drop the video from the queue
FinishVideo ==
    /\ pc = "finish"
    /\ video_log' = Append(video_log, <<"SUKSES", video_path>>)
    /\ original_exists' \in RemoveOriginal(delete_original, original_exists)
    /\ api_keys' = Rotate(api_keys, api_key)
    /\ input_files' = RemoveVideo(input_files, video_path)
    /\ success' = TRUE
    /\ pc' = "while_keys"
    /\ UNCHANGED <<disk, api_file_path, output_dir_ok, is_processing, stop_event,
                   pause_event, start_btn, pause_btn, stop_btn>>
    /\ UNCHANGED <<videos_to_process, idx, key_candidates, api_key, status, err,
                   temp_exists, delete_original>>
    /\ UNCHANGED <<pool_at_start, tried, poll_stopped>>
    /\ UNCHANGED auxVars

\* lines 1633-1635: except Exception -> _handle_api_error, continue
HandleApiError ==
    /\ pc = "except"
    /\ IF IsInsufficientCredit(err)
       THEN /\ api_keys' = EvictFromPool(api_keys, api_key)
            /\ disk' = IF api_file_path \in Paths
                       THEN [disk EXCEPT ![api_file_path] =
                                remove_key_from_file(disk[api_file_path], api_key)]
                       ELSE disk
       ELSE UNCHANGED <<api_keys, disk>>
    /\ err' = NoErr
    /\ pc' = "while_keys"
    /\ UNCHANGED <<api_file_path, output_dir_ok, input_files, is_processing,
                   stop_event, pause_event, start_btn, pause_btn, stop_btn>>
    /\ UNCHANGED <<videos_to_process, idx, key_candidates, api_key, success,
                   status, temp_exists, delete_original, original_exists>>
    /\ UNCHANGED histVars
    /\ UNCHANGED auxVars

\* lines 1637-1640: report the video failed when no attempt succeeded
AfterKeys ==
    /\ pc = "after_keys"
    /\ video_log' = IF success THEN video_log
                  ELSE Append(video_log, <<"GAGAL", video_path>>)
    /\ pc' = "for"
    /\ UNCHANGED <<videos_to_process, idx, key_candidates, api_key, success,
                   status, err, temp_exists, delete_original, original_exists>>
    /\ UNCHANGED <<uiVars, pool_at_start, tried, poll_stopped>>
    /\ UNCHANGED auxVars

\* lines 1649-1662: finally -> is_processing = False, _reset_controls
ResetControls ==
    /\ pc = "finally"
    /\ is_processing' = FALSE
    /\ pause_event' = TRUE
    /\ pause_btn' = FALSE
    /\ stop_btn' = FALSE
    /\ start_btn' = can_start(input_files, api_keys, output_dir_ok, FALSE)
    /\ pc' = "idle"
    /\ videos_to_process' = <<>>
    /\ idx' = 0
    /\ UNCHANGED <<disk, api_file_path, output_dir_ok, api_keys, input_files,
                   stop_event>>
    /\ UNCHANGED <<key_candidates, api_key, success, status, err, temp_exists, delete_original, original_exists>>
    /\ UNCHANGED histVars
    /\ UNCHANGED auxVars

(* --------------------------- specification ----------------------------- *)

UserAction ==
    \/ \E p \in Paths : ChooseApiFile(p)
    \/ \E files \in Picks : ChooseVideos(files)
    \/ \E sel \in SUBSET (1..NumVideos) : RemoveSelected(sel)
    \/ ClearQueue
    \/ StartProcessing
    \/ TogglePause
    \/ StopProcessing

WorkerStep ==
    \/ WorkerBegin
    \/ ForNextVideo
    \/ ProbeVideo
    \/ WhileKeys
    \/ CreateRequest
    \/ AcceptRequest
    \/ UploadParts
    \/ CompleteUpload
    \/ PollHead
    \/ GetStatus
    \/ ExamineStatus
    \/ Sleep
    \/ DownloadResult
    \/ Reencode
    \/ FinishVideo
    \/ HandleApiError
    \/ AfterKeys
    \/ ResetControls

Next == UserAction \/ WorkerStep

Spec == Init /\ [][Next]_vars

TypeOK ==
    /\ pc \in {"idle", "start", "for", "pause_wait", "while_keys", "create",
               "accept", "upload", "complete_upload", "poll", "poll_pause", "examine",
               "sleep", "download", "reencode", "finish", "except", "after_keys",
               "finally"}
    /\ start_btn => pc = "idle"

\* The worker thread is scheduled again and again, every blocking call it
\* makes returns, and a wait on the pause signal returns once the signal has
\* been set, even if it is cleared again at once: a step of the worker that
\* is possible again and again is taken.
SpecLive == Init /\ [][Next]_vars /\ SF_vars(WorkerStep)

(* ------------------ the worker threads, one by one --------------------- *)

\* How many threads the program may have started and not yet seen end.
MaxWorkers == 2

Threads == 1..MaxWorkers
NoThread == [pc |-> "none", todo |-> <<>>, video |-> 0]

\* threads inside the body of _process_videos, before its finally clause
Executing == {t \in DOMAIN workers : workers[t].pc \in {"start", "for", "wait", "attempt"}}

InitWorkers ==
    /\ InitMain
    /\ workers = [t \in Threads |-> NoThread]
    /\ call = NoCall

\* _start_processing, reached through the enabled start button: line 1226
\* starts a new thread whatever the other threads are doing
StartThread ==
    /\ start_btn
    /\ \E t \in Threads :
          /\ workers[t].pc = "none"
          /\ \A u \in Threads : u < t => workers[u].pc # "none"
          /\ workers' = [workers EXCEPT ![t] = [NoThread EXCEPT !.pc = "start"]]
    /\ is_processing' = TRUE
    /\ stop_event' = FALSE
    /\ pause_event' = TRUE
    /\ start_btn' = FALSE
    /\ pause_btn' = TRUE
    /\ stop_btn' = TRUE
    /\ UNCHANGED <<disk, api_file_path, output_dir_ok, api_keys, input_files>>
    /\ UNCHANGED <<wkVars, histVars, call>>

\* line 1436: the thread copies the queue
ThreadBegin(t) ==
    /\ workers[t].pc = "start"
    /\ workers' = [workers EXCEPT ![t] = [pc |-> "for", todo |-> input_files, video |-> 0]]
    /\ UNCHANGED <<uiVars, wkVars, histVars, call>>

\* lines 1441-1442: the next video of the copy, or the end, or stop observed
ThreadNextVideo(t) ==
    /\ workers[t].pc = "for"
    /\ workers' = [workers EXCEPT ![t] =
          IF workers[t].todo = <<>> \/ stop_event
          THEN [pc |-> "finally", todo |-> <<>>, video |-> 0]
          ELSE [pc |-> "wait", todo |-> Tail(workers[t].todo),
                video |-> Head(workers[t].todo)]]
    /\ UNCHANGED <<uiVars, wkVars, histVars, call>>

\* line 1443: self.pause_event.wait(); the attempts for the video begin
ThreadWait(t) ==
    /\ workers[t].pc = "wait"
    /\ pause_event_wait
    /\ workers' = [workers EXCEPT ![t].pc = "attempt"]
    /\ UNCHANGED <<uiVars, wkVars, histVars, call>>

\* lines 1507-1640: the attempts for the video end, with the video done and
\* removed from the queue (1616-1619) or not
ThreadAttemptsEnd(t) ==
    /\ workers[t].pc = "attempt"
    /\ workers' = [workers EXCEPT ![t].pc = "for"]
    /\ \/ input_files' = RemoveVideo(input_files, workers[t].video)
       \/ UNCHANGED input_files
    /\ UNCHANGED <<disk, api_file_path, output_dir_ok, api_keys, is_processing,
                   stop_event, pause_event, start_btn, pause_btn, stop_btn>>
    /\ UNCHANGED <<wkVars, histVars, call>>

\* line 1650: the first statement of the finally clause
ThreadFinally(t) ==
    /\ workers[t].pc = "finally"
    /\ is_processing' = FALSE
    /\ workers' = [workers EXCEPT ![t].pc = "reset"]
    /\ UNCHANGED <<disk, api_file_path, output_dir_ok, api_keys, input_files,
                   stop_event, pause_event, start_btn, pause_btn, stop_btn>>
    /\ UNCHANGED <<wkVars, histVars, call>>

\* lines 1651-1662: _reset_controls, then the thread ends
ThreadReset(t) ==
    /\ workers[t].pc = "reset"
    /\ is_processing' = FALSE
    /\ pause_event' = TRUE
    /\ pause_btn' = FALSE
    /\ stop_btn' = FALSE
    /\ start_btn' = can_start(input_files, api_keys, output_dir_ok, FALSE)
    /\ workers' = [workers EXCEPT ![t] = NoThread]
    /\ UNCHANGED <<disk, api_file_path, output_dir_ok, api_keys, input_files,
                   stop_event>>
    /\ UNCHANGED <<wkVars, histVars, call>>

NextWorkers ==
    \/ \E p \in Paths : ChooseApiFile(p)
    \/ \E files \in Picks : ChooseVideos(files)
    \/ \E sel \in SUBSET (1..NumVideos) : RemoveSelected(sel)
    \/ ClearQueue
    \/ TogglePause
    \/ StopProcessing
    \/ StartThread
    \/ \E t \in Threads : ThreadBegin(t)
    \/ \E t \in Threads : ThreadNextVideo(t)
    \/ \E t \in Threads : ThreadWait(t)
    \/ \E t \in Threads : ThreadAttemptsEnd(t)
    \/ \E t \in Threads : ThreadFinally(t)
    \/ \E t \in Threads : ThreadReset(t)

SpecWorkers == InitWorkers /\ [][NextWorkers]_vars

(* ------------------ reencode_video_adobe_optimized --------------------- *)

\* what get_video_metadata (lines 72-86) finds in the downloaded file: either
\* cv2 cannot open it, or it has a frame size and a duration (0 when the
\* container reports no frame rate)
TempFiles ==
    {[readable |-> FALSE, width |-> 0, height |-> 0, duration |-> 0]}
    \cup [readable : {TRUE}, width : {1280, 1920, 3840},
          height : {720, 1080, 2160}, duration : {0, 10}]

\* durations, in seconds, the caller passes (lines 1570-1571, 1583-1584)
Durations == {0, 10, 20}

NoFps == 0

\* target_fps: None or a frame rate
TargetFps == {NoFps, 30}

\* the arguments of one call and the outcome of the two probes it makes
ReencodeCalls ==
    [op : {"reencode"}, pc : {"factors"}, temp : TempFiles,
     original_duration : Durations, desired_duration : Durations,
     audio : BOOLEAN, mute : BOOLEAN, sharp_filter : BOOLEAN,
     target_fps : TargetFps, path : {"none"}, cmd : {<<"ffmpeg -y -i temp">>},
     target_maxrate : {"none"}, result : {"none"}]

\* line 303
video_has_audio(c) == c.audio /\ ~c.mute

\* the stream-copy/remap command of lines 349-358 and 362-371
FallbackOptions(c) ==
    (IF c.sharp_filter THEN <<"-filter:v sharp">> ELSE <<>>)
    \o (IF video_has_audio(c)
        THEN <<"-map 0:v:0", "-map 1:a:0", "-c:a copy">>
        ELSE <<"-map 0:v:0", "-an">>)

\* the duration-correcting command of lines 319-345
SyncOptions(c) ==
    IF video_has_audio(c)
    THEN <<"-filter_complex setpts atempo", "-map [v]", "-map [a]">>
    ELSE <<"-filter:v setpts", "-an">>

\* an exception inside the try of lines 316-359: the probe of line 317 fails,
\* or line 321 divides by a desired duration of zero
FactorsRaise(c) ==
    \/ ~c.temp.readable
    \/ /\ c.temp.duration > 0
       /\ c.original_duration > 0
       /\ c.desired_duration = 0

\* lines 377-384
TargetMaxrate(out_w, out_h) ==
    IF out_w >= 3800 \/ out_h >= 2100 THEN "50000k"
    ELSE IF out_w >= 1900 \/ out_h >= 1060 THEN "25000k"
    ELSE "20000k"

\* lines 378, 381, 384
TargetBufsize(maxrate) ==
    CASE maxrate = "50000k" -> "100000k"
      [] maxrate = "25000k" -> "50000k"
      [] OTHER -> "40000k"

InitTranscode ==
    /\ InitMain
    /\ workers = <<>>
    /\ call \in ReencodeCalls

\* lines 300-371: the inputs, then the filter options or the fallback
ReencodeFactors ==
    /\ call.op = "reencode"
    /\ call.pc = "factors"
    /\ LET input == IF video_has_audio(call) THEN <<"-i original">> ELSE <<>>
           path == IF FactorsRaise(call) THEN "exception"
                   ELSE IF call.temp.duration > 0 /\ call.original_duration > 0
                        THEN "sync"
                        ELSE "invalid"
           options == IF path = "sync" THEN SyncOptions(call)
                      ELSE FallbackOptions(call)
       IN  call' = [call EXCEPT !.pc = "meta", !.path = path,
                                !.cmd = @ \o input \o options]
    /\ UNCHANGED <<uiVars, wkVars, histVars, workers>>

\* lines 375-384: the second probe, outside any try
ReencodeMeta ==
    /\ call.op = "reencode"
    /\ call.pc = "meta"
    /\ IF call.temp.readable
       THEN call' = [call EXCEPT !.pc = "encode",
                       !.target_maxrate =
                           TargetMaxrate(call.temp.width, call.temp.height)]
       ELSE call' = [call EXCEPT !.pc = "done", !.result = "raise"]
    /\ UNCHANGED <<uiVars, wkVars, histVars, workers>>

\* lines 386-419: codec, rate, frame-rate and audio options
ReencodeEncode ==
    /\ call.op = "reencode"
    /\ call.pc = "encode"
    /\ LET video == <<"-c:v libx264", "-maxrate " \o call.target_maxrate,
                      "-bufsize " \o TargetBufsize(call.target_maxrate)>>
           rate == IF call.target_fps # NoFps THEN <<"-r", "-g">> ELSE <<>>
           sound == IF video_has_audio(call)
                    THEN <<"-c:a aac", "-b:a 320k", "-ar 48000">>
                    ELSE <<>>
       IN  call' = [call EXCEPT !.pc = "run",
                                !.cmd = @ \o video \o rate \o sound \o <<"output">>]
    /\ UNCHANGED <<uiVars, wkVars, histVars, workers>>

\* lines 421-435: the ffmpeg process
ReencodeRun ==
    /\ call.op = "reencode"
    /\ call.pc = "run"
    /\ \E outcome \in {"zero", "nonzero", "FileNotFoundError", "Exception"} :
           call' = [call EXCEPT !.pc = "done",
                      !.result = IF outcome = "zero" THEN "True" ELSE "False"]
    /\ UNCHANGED <<uiVars, wkVars, histVars, workers>>

NextTranscode ==
    \/ ReencodeFactors
    \/ ReencodeMeta
    \/ ReencodeEncode
    \/ ReencodeRun

SpecTranscode == InitTranscode /\ [][NextTranscode]_vars

(* ------------------------- the tempo chain ----------------------------- *)

\* Speed factors are counted in units of 0.00001, stage factors, which the
\* command carries with four decimals, in units of 0.0001.
MaxTempo == 500000

\* the factors tried: a grid of step 0.025 and its close neighbours
TempoFactors == {n \in 1..MaxTempo : n % 2500 \in {0, 1, 5, 2499}}

\* audio_speed_factor is the fraction num / den of the unit
GreaterThanTwo(f) == f.num > 200000 * f.den

LessThanHalf(f) == 2 * f.num < 100000 * f.den

IsOne(f) == f.num = 100000 * f.den

\* f"{audio_speed_factor:.4f}" (line 338): the nearest multiples of 0.0001;
\* a value halfway between two of them goes to either, as its binary
\* representation decides
Format4(f) ==
    LET d == 10 * f.den
        q == f.num \div d
        r == f.num % d
    IN  IF 2 * r < d THEN {q}
        ELSE IF 2 * r > d THEN {q + 1}
        ELSE {q, q + 1}

InitTempo ==
    /\ InitMain
    /\ workers = <<>>
    /\ \E n \in TempoFactors :
           call = [op |-> "atempo", pc |-> "while_gt", factor |-> n,
                   audio_speed_factor |-> [num |-> n, den |-> 1],
                   atempo_filters |-> <<>>]

\* lines 331-333
TempoHalve ==
    /\ call.op = "atempo"
    /\ call.pc = "while_gt"
    /\ IF GreaterThanTwo(call.audio_speed_factor)
       THEN call' = [call EXCEPT
                       !.atempo_filters = Append(@, 20000),
                       !.audio_speed_factor.den = 2 * @]
       ELSE call' = [call EXCEPT !.pc = "while_lt"]
    /\ UNCHANGED <<uiVars, wkVars, histVars, workers>>

\* lines 334-336
TempoDouble ==
    /\ call.op = "atempo"
    /\ call.pc = "while_lt"
    /\ IF LessThanHalf(call.audio_speed_factor)
       THEN call' = [call EXCEPT
                       !.atempo_filters = Append(@, 5000),
                       !.audio_speed_factor.num = 2 * @]
       ELSE call' = [call EXCEPT !.pc = "last"]
    /\ UNCHANGED <<uiVars, wkVars, histVars, workers>>

\* lines 337-338
TempoLast ==
    /\ call.op = "atempo"
    /\ call.pc = "last"
    /\ IF IsOne(call.audio_speed_factor)
       THEN call' = [call EXCEPT !.pc = "done"]
       ELSE \E stage \in Format4(call.audio_speed_factor) :
                call' = [call EXCEPT !.pc = "done",
                                     !.atempo_filters = Append(@, stage)]
    /\ UNCHANGED <<uiVars, wkVars, histVars, workers>>

NextTempo ==
    \/ TempoHalve
    \/ TempoDouble
    \/ TempoLast

SpecTempo == InitTempo /\ [][NextTempo]_vars

(* ------------------------- model selection ----------------------------- *)

\* Frame rates and bitrates are counted in hundredths (29.97 fps is 2997,
\* 12 Mbps is 1200), sharpen amounts in hundredths too.
SourceWidths == {640, 1280, 1920, 3200, 3840}

SourceHeights == {480, 720, 1080, 1800, 2160}

SourceFps == {2397, 2997, 3000, 3001, 6000}

SourceBitrates == {-100, 0, 100, 599, 600, 1199, 1200, 2000}

\* lines 106-138
pick_model_and_sharpen(width, height, fps, bitrate_mbps) ==
    LET b == IF bitrate_mbps <= 0 THEN 100 ELSE bitrate_mbps
        is_uhd == width >= 3200 \/ height >= 1800
        is_fhd == width >= 1920 /\ height >= 1080
        is_low_res == width < 1280 \/ height < 720
        low_bitrate == b < 600
        mid_bitrate == 600 <= b /\ b < 1200
        high_bitrate == b >= 1200
        choice ==
            IF is_low_res \/ low_bitrate THEN [model |-> "ahq-12", amount |-> 70]
            ELSE IF is_uhd /\ high_bitrate THEN [model |-> "prob-4", amount |-> 55]
            ELSE IF is_fhd /\ mid_bitrate
                 THEN IF fps <= 3000 THEN [model |-> "iris-3", amount |-> 55]
                      ELSE [model |-> "prob-4", amount |-> 60]
            ELSE [model |-> "prob-4",
                  amount |-> IF ~high_bitrate THEN 65 ELSE 58]
    IN  [choice EXCEPT !.amount = Max(45, Min(@, 75))]

InitPick ==
    /\ InitMain
    /\ workers = <<>>
    /\ \E w \in SourceWidths, h \in SourceHeights,
          f \in SourceFps, b \in SourceBitrates :
           call = [op |-> "pick", pc |-> "call", width |-> w, height |-> h,
                   fps |-> f, bitrate_mbps |-> b,
                   model |-> "none", amount |-> 0]

\* line 1487: selected_model, unsharp_filter = pick_model_and_sharpen(...)
PickModel ==
    /\ call.op = "pick"
    /\ call.pc = "call"
    /\ LET r == pick_model_and_sharpen(call.width, call.height,
                                       call.fps, call.bitrate_mbps)
       IN  call' = [call EXCEPT !.pc = "done", !.model = r.model,
                                !.amount = r.amount]
    /\ UNCHANGED <<uiVars, wkVars, histVars, workers>>

NextPick == PickModel

SpecPick == InitPick /\ [][NextPick]_vars

(* ---------------------------- normalize_fps ----------------------------- *)

\* Source frame rates are counted in units of 0.0001, results, which have at
\* most three decimals, in units of 0.001.
MaxFps == 1200000

\* the rates tried: a grid of step 0.25 and some neighbours of its points
FpsInputs == {n \in 1..MaxFps : n % 2500 \in {0, 1, 5, 2000, 2499}}

\* round(fps, 3): the nearest multiple of 0.001; a value halfway between two
\* of them goes to either, as its binary representation decides
Round3(n) ==
    LET q == n \div 10
        r == n % 10
    IN  IF r < 5 THEN {q} ELSE IF r > 5 THEN {q + 1} ELSE {q, q + 1}

\* lines 141-153: the values the call can return
normalize_fps(fps) ==
    IF 235000 <= fps /\ fps < 245000 THEN {23976}
    ELSE IF 245000 <= fps /\ fps < 255000 THEN {25000}
    ELSE IF 295000 <= fps /\ fps < 305000 THEN {29970}
    ELSE IF 495000 <= fps /\ fps < 505000 THEN {50000}
    ELSE IF 595000 <= fps /\ fps < 605000 THEN {59940}
    ELSE Round3(fps)

InitFps ==
    /\ InitMain
    /\ workers = <<>>
    /\ \E n \in FpsInputs :
           call = [op |-> "normalize_fps", pc |-> "call", fps |-> n, result |-> 0]

\* a call of normalize_fps and its return
NormalizeFps ==
    /\ call.op = "normalize_fps"
    /\ call.pc = "call"
    /\ \E r \in normalize_fps(call.fps) :
           call' = [call EXCEPT !.pc = "done", !.result = r]
    /\ UNCHANGED <<uiVars, wkVars, histVars, workers>>

NextFps == NormalizeFps

SpecFps == InitFps /\ [][NextFps]_vars

(* --------------------------- progress display --------------------------- *)

\* Reported progress values are counted in hundredths: the fraction 0.42 is
\* 42, the percentage 87 is 8700.
MaxRawProgress == 15000

\* what the 'progress' field of a status response can hold: a number, or
\* something that is not a number (a string, a list)
RawProgress ==
    [numeric : {TRUE}, value : -200..MaxRawProgress]
    \cup {[numeric |-> FALSE, value |-> 0]}

\* ModernProgressBar.set_progress (lines 604-606), in hundredths of a percent
set_progress(value) == Max(0, Min(10000, value))

InitProgress ==
    /\ InitMain
    /\ workers = <<>>
    /\ \E raw \in RawProgress :
           call = [op |-> "progress", pc |-> "status", progress_raw |-> raw,
                   progress_val |-> 0, shown |-> 0]

\* lines 1543-1548: progress_val of the response just received
NormalizeProgress ==
    /\ call.op = "progress"
    /\ call.pc = "status"
    /\ call' = [call EXCEPT
                  !.pc = "show",
                  !.progress_val =
                      IF call.progress_raw.numeric
                      THEN progress_val([progress |-> call.progress_raw.value])
                      ELSE 0]
    /\ UNCHANGED <<uiVars, wkVars, histVars, workers>>

\* line 1550: _update_progress hands the value to the progress bar
ShowProgress ==
    /\ call.op = "progress"
    /\ call.pc = "show"
    /\ call' = [call EXCEPT !.pc = "done",
                            !.shown = set_progress(call.progress_val)]
    /\ UNCHANGED <<uiVars, wkVars, histVars, workers>>

NextProgress ==
    \/ NormalizeProgress
    \/ ShowProgress

SpecProgress == InitProgress /\ [][NextProgress]_vars

(* --------------------------- upload_video_parts ------------------------- *)

MaxSize == 12

MaxParts == 5

\* len(f.read(count)) with the file of total_size bytes positioned at start:
\* a negative count reads to the end of the file
ReadLen(total_size, start, count) ==
    LET left == Max(0, total_size - start)
    IN  IF count < 0 THEN left ELSE Min(count, left)

\* lines 236-239: the file size, the URLs handed over and the part size
InitUpload ==
    /\ InitMain
    /\ workers = <<>>
    /\ \E total_size \in 0..MaxSize, part_count \in 1..MaxParts :
           call = [op |-> "upload", pc |-> "for", total_size |-> total_size,
                   part_count |-> part_count,
                   part_size |-> (total_size + part_count - 1) \div part_count,
                   idx |-> 0, sent |-> <<>>, etags |-> <<>>, result |-> "none"]

\* lines 242-254: one part is read and put; a failed transfer raises
UploadPart ==
    /\ call.op = "upload"
    /\ call.pc = "for"
    /\ call.idx < call.part_count
    /\ LET start == call.idx * call.part_size
           end == Min((call.idx + 1) * call.part_size, call.total_size)
           part == [start |-> start, end |-> end,
                    len |-> ReadLen(call.total_size, start, end - start)]
       IN  \E ok \in BOOLEAN :
               IF ok
               THEN call' = [call EXCEPT !.idx = @ + 1,
                                         !.sent = Append(@, part),
                                         !.etags = Append(@, call.idx + 1)]
               ELSE call' = [call EXCEPT !.pc = "done", !.result = "raise",
                                         !.sent = Append(@, part)]
    /\ UNCHANGED <<uiVars, wkVars, histVars, workers>>

\* line 256
UploadReturn ==
    /\ call.op = "upload"
    /\ call.pc = "for"
    /\ call.idx = call.part_count
    /\ call' = [call EXCEPT !.pc = "done", !.result = "etags"]
    /\ UNCHANGED <<uiVars, wkVars, histVars, workers>>

NextUpload ==
    \/ UploadPart
    \/ UploadReturn

SpecUpload == InitUpload /\ [][NextUpload]_vars

(* ------------------------- final output names --------------------------- *)

\* Every queued video may carry the same base name (the same file name in
\* different folders), so every final output is requested as
\* AdobeStock_<base>.mp4: output 0 is that path, output n the path
\* AdobeStock_<base>_n.mp4.
MaxOutputs == 3

NoFile == -1

\* lines 167-180: the requested path unless it exists, else the first free
\* path counting from _1
get_unique_filepath(exists, output_path) ==
    IF output_path \notin exists THEN output_path
    ELSE CHOOSE counter \in 1..(Cardinality(exists) + 1) :
             /\ counter \notin exists
             /\ \A smaller \in 1..(counter - 1) : smaller \in exists

\* the output folder as the run finds it, and no name chosen yet
InitNames ==
    /\ InitMain
    /\ workers = [t \in Threads |-> NoThread]
    /\ \E found \in SUBSET (0..1) :
           call = [op |-> "outputs", files |-> found,
                   final_file |-> [t \in Threads |-> NoFile]]

\* lines 1566-1568, after the download: the name of the final output
ThreadUniqueName(t) ==
    /\ workers[t].pc = "attempt"
    /\ Cardinality(call.files) < MaxOutputs
    /\ workers' = [workers EXCEPT ![t].pc = "named"]
    /\ call' = [call EXCEPT !.final_file[t] = get_unique_filepath(call.files, 0)]
    /\ UNCHANGED <<uiVars, wkVars, histVars>>

\* lines 1573-1628: ffmpeg -y writes the final output; on success the video
\* leaves the queue and the attempts end, on failure they end after the
\* last key
ThreadTranscode(t) ==
    /\ workers[t].pc = "named"
    /\ workers' = [workers EXCEPT ![t].pc = "for"]
    /\ call' = [call EXCEPT !.files = @ \cup {call.final_file[t]},
                            !.final_file[t] = NoFile]
    /\ \/ input_files' = RemoveVideo(input_files, workers[t].video)
       \/ UNCHANGED input_files
    /\ UNCHANGED <<disk, api_file_path, output_dir_ok, api_keys, is_processing,
                   stop_event, pause_event, start_btn, pause_btn, stop_btn>>
    /\ UNCHANGED <<wkVars, histVars>>

\* lines 1507-1640: no attempt for the video reaches the download
ThreadAttemptsFail(t) ==
    /\ workers[t].pc = "attempt"
    /\ workers' = [workers EXCEPT ![t].pc = "for"]
    /\ UNCHANGED <<uiVars, wkVars, histVars, call>>

NextNames ==
    \/ \E files \in Picks : ChooseVideos(files)
    \/ \E sel \in SUBSET (1..NumVideos) : RemoveSelected(sel)
    \/ ClearQueue
    \/ TogglePause
    \/ StopProcessing
    \/ StartThread
    \/ \E t \in Threads : ThreadBegin(t)
    \/ \E t \in Threads : ThreadNextVideo(t)
    \/ \E t \in Threads : ThreadWait(t)
    \/ \E t \in Threads : ThreadUniqueName(t)
    \/ \E t \in Threads : ThreadTranscode(t)
    \/ \E t \in Threads : ThreadAttemptsFail(t)
    \/ \E t \in Threads : ThreadFinally(t)
    \/ \E t \in Threads : ThreadReset(t)

SpecNames == InitNames /\ [][NextNames]_vars

(* ------------------------------ properties ----------------------------- *)

AttemptPcs == {"create", "accept", "upload", "complete_upload", "poll",
               "poll_pause", "examine", "sleep", "download", "reencode",
               "finish", "except"}
PollPcs == {"poll", "poll_pause", "examine", "sleep"}

IsPrefix(s, t) == Len(s) <= Len(t) /\ s = SubSeq(t, 1, Len(s))
NoDuplicates(l) == \A i, j \in 1..Len(l) : l[i] = l[j] => i = j
Count(l, x) == Cardinality({i \in 1..Len(l) : l[i] = x})
Reported(word) == Count(video_log, <<word, video_path>>)

\* a failure with HTTP 402 whose body carries the insufficient-credit message
CreditFailure(e) == e.http /\ e.status_code = 402 /\ e.credit

\* C1: for one video the keys are tried one at a time in the order of the pool
\* as it stood when the video started; the attempts stop at the first success;
\* when every key failed (and no stop was requested) every key of that pool
\* was tried, the video is reported failed exactly once, it occurs once in the
\* run's list, and a run that was neither stopped nor ended by an exception
\* outside the attempts goes through its whole list.
C1_KeysTriedInPoolOrder ==
    /\ IsPrefix(tried, pool_at_start)
    /\ pc \in AttemptPcs =>
          tried # <<>> /\ api_key = tried[Len(tried)] /\ ~success
    /\ success =>
          /\ pc \in {"while_keys", "after_keys", "for"}
          /\ api_key = tried[Len(tried)]
          /\ Reported("GAGAL") = 0
    /\ (pc = "after_keys" /\ ~success /\ ~stop_event) => tried = pool_at_start
    /\ Reported("GAGAL") <= 1
    /\ (pc = "for" /\ idx >= 1 /\ ~success
           /\ Reported("Gagal membaca metadata") = 0) =>
          Reported("GAGAL") = 1 /\ Reported("SUKSES") = 0
    /\ NoDuplicates(videos_to_process)
    /\ (pc = "finally" /\ ~stop_event
           /\ Reported("ERROR KRITIS PADA THREAD") = 0) =>
          idx = Len(videos_to_process)

\* every key of a three-key pool failed on the first of two videos, no stop
C1_AllKeysFailed ==
    /\ pc = "for"
    /\ idx = 1
    /\ Len(videos_to_process) = 2
    /\ ~success
    /\ ~stop_event
    /\ Len(pool_at_start) = 3
    /\ tried = pool_at_start
    /\ Reported("GAGAL") = 1

\* C2: an attempt that ends in a failure other than HTTP 402 with the
\* insufficient-credit message leaves the pool, the key file and the remaining
\* candidates as they were, and the next attempt takes the next candidate.
C2_OtherFailureKeepsKey ==
    [][ /\ (/\ pc \in AttemptPcs
            /\ pc' = "while_keys"
            /\ ~success'
            /\ ~(pc = "except" /\ CreditFailure(err)))
           => /\ api_keys' = api_keys
              /\ disk' = disk
              /\ key_candidates' = key_candidates
        /\ (pc = "while_keys" /\ pc' = "create")
           => /\ api_key' = Head(key_candidates)
              /\ key_candidates' = Tail(key_candidates)
      ]_vars

\* a 402 without the credit message is being handled, more keys are waiting
C2_OtherFailureHandled ==
    /\ pc = "except"
    /\ err.http
    /\ err.status_code = 402
    /\ ~err.credit
    /\ InList(api_key, api_keys)
    /\ key_candidates # <<>>

\* C3: once a key was evicted for insufficient credit it occurs nowhere in the
\* pool and on no line of the key file.
C3_EvictedKeyNowhere ==
    [][ (pc = "except" /\ pc' = "while_keys" /\ IsInsufficientCredit(err))
        => /\ ~InList(api_key, api_keys')
           /\ api_file_path \in Paths =>
                 \A i \in 1..Len(disk'[api_file_path]) :
                    ~Contains(disk'[api_file_path][i], api_key)
      ]_vars

\* C4: when a video succeeded with a key, that key is the last of the pool
\* and the other keys keep their order.
C4_SuccessfulKeyLast ==
    [][ (pc = "finish" /\ pc' = "while_keys")
        => /\ api_keys' # <<>>
           /\ api_keys'[Len(api_keys')] = api_key
           /\ SubSeq(api_keys', 1, Len(api_keys') - 1) = RemoveFirst(api_keys, api_key)
      ]_vars

\* C5: a response whose state is failed or cancelled, in any letter case, ends
\* the polling and the attempt counts as failed.
C5_FailedStateStopsPolling ==
    [][ (/\ pc = "examine"
         /\ pc' # pc
         /\ state_lower(status) \in {"failed", "cancelled"})
        => pc' = "while_keys" /\ ~success'
      ]_vars

\* C6: the poll ends in success exactly when the response has state complete
\* or carries a download descriptor, and then the result is downloaded.
C6_SuccessIffCompleteOrDownload ==
    [][ (pc = "examine" /\ pc' # pc)
        => (pc' = "download" <=> (state_lower(status) = "complete" \/ status.download))
      ]_vars

\* C7: a response with progress 100 whose state is not complete does not end
\* the poll: the poller sleeps and queries again; and the poll ends in success
\* only on state complete or a download descriptor, never on progress alone.
C7_ProgressAloneNeverEnds ==
    [][ /\ (/\ pc = "examine"
            /\ pc' # pc
            /\ progress_val(status) >= 10000
            /\ state_lower(status) # "complete")
           => pc' = "sleep"
        /\ (pc = "examine" /\ pc' = "download")
           => (state_lower(status) = "complete" \/ status.download)
        /\ (pc = "sleep" /\ pc' # pc) => pc' = "poll"
      ]_vars

\* a response with progress 100, a state other than complete and a download
\* descriptor is about to be examined
C7_FullProgressNotComplete ==
    /\ pc = "examine"
    /\ progress_val(status) >= 10000
    /\ state_lower(status) = "failed"
    /\ status.download

\* C8: once polling began it ends only on a terminal status (success, failed,
\* cancelled) or on the stop signal observed at the head of the poll loop.
C8_PollEndsOnTerminalOrStop ==
    [][ (pc \in PollPcs /\ pc' \notin PollPcs)
        => \/ pc = "examine" /\ pc' \in {"download", "while_keys"}
           \/ pc = "poll" /\ stop_event
      ]_vars

\* C9: when the poll loop ended on the stop signal, the video is not reported
\* succeeded or failed, it stays in the queue, no key is rotated or evicted
\* and no further key is tried.
C9_StopInPollReportsNothing ==
    [][ (poll_stopped /\ pc \in {"while_keys", "after_keys"} /\ pc' # pc)
        => /\ video_log' = video_log
           /\ input_files' = input_files
           /\ api_keys' = api_keys
           /\ disk' = disk
           /\ pc' # "create"
      ]_vars

\* C10: after the transcode of a downloaded result failed, no further job is
\* submitted for that video with another key.
C10_TranscodeFailureEndsVideo ==
    ~(pc = "create" /\ Reported("Re-encode gagal.") >= 1)

\* C11: once an attempt that reached the download step has ended, the
\* temporary download artifact does not exist: it exists only while the
\* attempt is between download and the end of its exception handling.
C11_TempRemovedAfterAttempt ==
    temp_exists => pc \in {"reencode", "except"}

\* C12: an exception raised while a video is processed does not end the run:
\* every later video of the list is still processed.
C12_ExceptionKeepsRunGoing ==
    ~(/\ pc = "finally"
      /\ Reported("ERROR KRITIS PADA THREAD") >= 1
      /\ idx < Len(videos_to_process))

\* C13: while the worker is active no handler of the presentation layer
\* changes the pending-video queue or the credential pool.
C13_UiLeavesQueueAndPool ==
    [][ (is_processing /\ pc' = pc)
        => (input_files' = input_files /\ api_keys' = api_keys)
      ]_vars

\* C14: at most one worker thread executes the queue at any time.
C14_AtMostOneWorker ==
    Cardinality(Executing) <= 1

\* C15: videos are processed in queue order, each job step by step, and no
\* two credential attempts for one video are in progress at the same time.
C15_NoOverlappingAttempts ==
    \A t, u \in DOMAIN workers :
        (/\ t # u
         /\ workers[t].pc = "attempt"
         /\ workers[u].pc = "attempt") => workers[t].video # workers[u].video

\* C16: the step that ends a successful job removes the completed video's
\* entry from the pending queue and no other entry; no other step of the
\* worker (failure, stop, probe error) removes an entry.
C16_OnlyCompletedVideoRemoved ==
    [][ pc' # pc =>
          IF pc = "finish"
          THEN LET Others(f) == f # video_path
               IN  /\ input_files' = SelectSeq(input_files, Others)
                   /\ Len(input_files') >= Len(input_files) - 1
          ELSE input_files' = input_files
      ]_vars

\* the second video of the list is about to be removed after its success,
\* the first one, which failed, is still queued ahead of it
C16_SecondVideoSucceeded ==
    /\ pc = "finish"
    /\ idx = 2
    /\ Len(input_files) = 2
    /\ input_files[2] = video_path

C18_TranscoderNeverRaises ==
    (call.op = "reencode" /\ call.pc = "done") => call.result \in {"True", "False"}

\* the stages 2.0 and 0.5 of a chain
Twos(stages) == Count(stages, 20000)

Halves(stages) == Count(stages, 5000)

RECURSIVE Pow2(_)
Pow2(k) == IF k = 0 THEN 1 ELSE 2 * Pow2(k - 1)

\* the product of the other stages, in units of 0.0001 (1.0 for none)
RECURSIVE Rest(_)
Rest(stages) ==
    IF stages = <<>> THEN 10000
    ELSE IF Head(stages) \in {20000, 5000} THEN Rest(Tail(stages))
    ELSE (Head(stages) * Rest(Tail(stages))) \div 10000

Abs(x) == IF x < 0 THEN -x ELSE x

\* | product of the stages - factor | <= 0.000001, both sides multiplied by
\* 1000000 * 2^Halves
ProductWithinMillionth(stages, factor) ==
    10 * Abs(10 * Rest(stages) * Pow2(Twos(stages)) - factor * Pow2(Halves(stages)))
        <= Pow2(Halves(stages))

\* C19: when the decomposition of a factor greater than 0 has ended, the
\* product of the emitted stage factors equals the factor within 0.000001
\* and every stage factor lies in [0.5, 2.0].
C19_TempoChainExact ==
    (call.op = "atempo" /\ call.pc = "done") =>
        /\ ProductWithinMillionth(call.atempo_filters, call.factor)
        /\ \A i \in DOMAIN call.atempo_filters :
               /\ call.atempo_filters[i] >= 5000
               /\ call.atempo_filters[i] <= 20000

\* C20: for a 1920x1080 source at 12 Mbps and 29.97 fps the selection
\* returns the texture model iris-3 with sharpen amount 0.55.
C20_ScenarioPicksTextureModel ==
    (/\ call.op = "pick"
     /\ call.pc = "done"
     /\ call.width = 1920
     /\ call.height = 1080
     /\ call.bitrate_mbps = 1200
     /\ call.fps = 2997)
        => (call.model = "iris-3" /\ call.amount = 55)

\* the rule table of the selection, first match wins, a bitrate of 6 to 12
\* Mbps counting as the mid band and a bitrate <= 0 as 1.0
RuleTable(width, height, fps, bitrate_mbps) ==
    LET b == IF bitrate_mbps <= 0 THEN 100 ELSE bitrate_mbps
    IN  IF width < 1280 \/ height < 720 \/ b < 600
        THEN [model |-> "ahq-12", amount |-> 70]
        ELSE IF (width >= 3200 \/ height >= 1800) /\ b >= 1200
        THEN [model |-> "prob-4", amount |-> 55]
        ELSE IF width >= 1920 /\ height >= 1080 /\ 600 <= b /\ b <= 1200
        THEN IF fps <= 3000 THEN [model |-> "iris-3", amount |-> 55]
                            ELSE [model |-> "prob-4", amount |-> 60]
        ELSE [model |-> "prob-4", amount |-> IF b < 1200 THEN 65 ELSE 58]

\* C21: for all inputs the selection returns what the first matching rule of
\* the table gives, and the returned amount lies in [0.45, 0.75].
C21_SelectionFollowsRuleTable ==
    (call.op = "pick" /\ call.pc = "done") =>
        /\ [model |-> call.model, amount |-> call.amount]
               = RuleTable(call.width, call.height, call.fps, call.bitrate_mbps)
        /\ call.amount >= 45
        /\ call.amount <= 75

\* C22: the frame-rate normalizer returns 29.97 for 29.7, 60.0 for 60.2 and
\* 22.0 for 22.0.
C22_NormalizerExamples ==
    (call.op = "normalize_fps" /\ call.pc = "done") =>
        /\ call.fps = 297000 => call.result = 29970
        /\ call.fps = 602000 => call.result = 60000
        /\ call.fps = 220000 => call.result = 22000

\* p * 100 when p <= 1 and p otherwise, clamped into [0, 100]
Normalized(p) ==
    LET scaled == IF p <= 100 THEN p * 100 ELSE p
    IN  IF scaled < 0 THEN 0 ELSE IF scaled > 10000 THEN 10000 ELSE scaled

\* C23: every numeric progress value p is normalized to p * 100 when p <= 1
\* and to p otherwise, clamped into [0, 100] (0.42 gives 42, 87 gives 87,
\* 130 gives 100), and the progress shown always lies in [0, 100].
C23_ProgressNormalized ==
    call.op = "progress" =>
        /\ (call.pc # "status" /\ call.progress_raw.numeric) =>
               /\ call.progress_val = Normalized(call.progress_raw.value)
               /\ call.progress_raw.value = 42 => call.progress_val = 4200
               /\ call.progress_raw.value = 8700 => call.progress_val = 8700
               /\ call.progress_raw.value = 13000 => call.progress_val = 10000
        /\ call.shown >= 0
        /\ call.shown <= 10000

\* a reported 130 has been normalized and is shown as 100
C23_OverfullProgressShown ==
    /\ call.op = "progress"
    /\ call.pc = "done"
    /\ call.progress_raw.numeric
    /\ call.progress_raw.value = 13000
    /\ call.shown = 10000

\* C24: an upload of S bytes to N URLs that returns has sent exactly N parts
\* of part size ceil(S/N) whose byte ranges are contiguous, satisfy
\* start <= end <= S and cover bytes 0..S-1, and it returns the part numbers
\* 1..N in ascending order.
C24_PartsContiguous ==
    (call.op = "upload" /\ call.result = "etags") =>
        /\ Len(call.sent) = call.part_count
        /\ call.part_size * call.part_count >= call.total_size
        /\ (call.part_size - 1) * call.part_count < call.total_size
               \/ call.total_size = 0
        /\ call.sent[1].start = 0
        /\ call.sent[call.part_count].end = call.total_size
        /\ \A i \in 1..call.part_count :
               /\ call.sent[i].start <= call.sent[i].end
               /\ call.sent[i].end <= call.total_size
               /\ i > 1 => call.sent[i].start = call.sent[i - 1].end
        /\ call.etags = [i \in 1..call.part_count |-> i]

\* the options of a command, searched for one
HasOption(cmd, option) == \E i \in DOMAIN cmd : cmd[i] = option

\* C25: in the fallback path with usable audio, the command handed to the
\* transcoder selects stream copy for the audio and carries no audio
\* re-encoding option (AAC codec, audio bitrate, sample rate).
C25_FallbackCopiesAudio ==
    (/\ call.op = "reencode"
     /\ call.pc \in {"run", "done"}
     /\ call.result # "raise"
     /\ call.path \in {"invalid", "exception"}
     /\ video_has_audio(call))
        => /\ HasOption(call.cmd, "-c:a copy")
           /\ ~HasOption(call.cmd, "-c:a aac")
           /\ ~HasOption(call.cmd, "-b:a 320k")
           /\ ~HasOption(call.cmd, "-ar 48000")

\* C26: the bitrate ceiling is 50 Mbps when the output is at least 3800 wide
\* and at least 2100 high, otherwise 25 Mbps when it is at least 1900 wide
\* and at least 1060 high, otherwise 20 Mbps, the buffer twice the ceiling.
C26_BitrateTiers ==
    (call.op = "reencode" /\ call.target_maxrate # "none") =>
        LET w == call.temp.width
            h == call.temp.height
            ceiling == IF w >= 3800 /\ h >= 2100 THEN "50000k"
                       ELSE IF w >= 1900 /\ h >= 1060 THEN "25000k"
                       ELSE "20000k"
            buffer == IF w >= 3800 /\ h >= 2100 THEN "100000k"
                      ELSE IF w >= 1900 /\ h >= 1060 THEN "50000k"
                      ELSE "40000k"
        IN  /\ call.target_maxrate = ceiling
            /\ TargetBufsize(call.target_maxrate) = buffer

\* C27: the name chosen for a final output is the requested path when nothing
\* exists there, otherwise the path with the least free counter from 1 on;
\* and no final output is written onto a file that exists, so none
\* overwrites an earlier one.
C27_NoOutputOverwritten ==
    [][ \A t \in Threads :
          /\ (workers[t].pc = "attempt" /\ workers'[t].pc = "named") =>
                 LET name == call'.final_file[t]
                 IN  /\ name \notin call.files
                     /\ 0 \notin call.files => name = 0
                     /\ 0 \in call.files =>
                            (name >= 1 /\ \A n \in 1..(name - 1) : n \in call.files)
          /\ (workers[t].pc = "named" /\ workers'[t].pc = "for") =>
                 call.final_file[t] \notin call.files
      ]_vars

\* C28: the original file of a video is deleted only by the step that follows
\* a successful transcode of that video, and only with the delete-original
\* option on; whenever the original is gone the video was reported SUKSES,
\* so on every failure, stop or exhaustion path it still exists.
C28_OriginalDeletedOnlyOnSuccess ==
    [][ /\ (original_exists /\ ~original_exists') =>
               (pc = "finish" /\ delete_original /\ ~temp_exists)
        /\ ~original_exists =>
               (delete_original /\ Reported("SUKSES") >= 1 /\ Reported("GAGAL") = 0)
      ]_vars

\* the option was on, the video succeeded and its original has been deleted
C28_OriginalDeleted ==
    /\ ~original_exists
    /\ success
    /\ pc = "after_keys"

\* C29: after stop is requested the worker eventually terminates and the
\* controls are reset, whatever pause and resume toggles follow the stop.
C29_StopEndsWorker ==
    (stop_event /\ pc # "idle") ~> (pc = "idle" /\ ~stop_btn /\ ~pause_btn)

\* the elements of a list
Elements(l) == {l[i] : i \in DOMAIN l}

\* C30: evicting key k changes nothing but k in the backing key file: every
\* line that is not k itself is still in the file after the eviction, and the
\* file and the pool then hold the same set of keys.
C30_EvictionKeepsOtherLines ==
    [][ (/\ pc = "except"
         /\ pc' # pc
         /\ IsInsufficientCredit(err)
         /\ api_file_path \in Paths)
        => /\ \A i \in DOMAIN disk[api_file_path] :
                  Strip(disk[api_file_path][i]) # api_key
                      => InList(disk[api_file_path][i], disk'[api_file_path])
           /\ Elements(read_api_keys_from_file(disk'[api_file_path]))
                  = Elements(api_keys')
      ]_vars

====
